---- MODULE Spec2Model ----
(***************************************************************************)
(* SpoolmanSync: the webhook handler (app/api/webhook/route.ts), the       *)
(* refreshes, the manual assign / unassign handlers and the live-update    *)
(* effect of the dashboard (app/page.tsx), over an inventory of spools     *)
(* held by the inventory service.                                          *)
(*                                                                         *)
(* Each webhook delivery is one run of POST, cut at its awaits: the        *)
(* inventory can change between two steps of one run, and several runs     *)
(* are in flight at once.  Inventory calls (getSpools, useWeight,          *)
(* assignSpoolToTray) either return or throw.  The activity log and the    *)
(* settings table are the local database; its calls return or reject as     *)
(* well.                                                                   *)
(*                                                                         *)
(* A refresh of the dashboard (fetchData) is cut at its awaits as well;    *)
(* the data of a response is named by the refresh that asked for it.       *)
(* The entity name functions (lib/entity-patterns.ts) work on strings;     *)
(* their regular expressions are written out as tests on substrings.       *)
(***************************************************************************)
EXTENDS Integers, Sequences, FiniteSets, TLC

(* ------------------------------ bounds -------------------------------- *)

\* spools in the inventory
NumSpools == 2
\* remaining_weight of every spool at the start
InitWeight == 1
\* largest used_weight a delivery carries
MaxUsedWeight == 1

\* EventSource objects the dashboard creates in one behaviour
MaxConnections == 2
\* fetchData calls the dashboard issues in one behaviour
MaxFetches == 2
\* runs of the live-update effect in one behaviour: each follows a setSettings,
\* and each fetchData call makes one
MaxRuns == MaxFetches
\* calls of the entity pattern functions in one behaviour
MaxCalls == 2

SpoolIds == 1..NumSpools
\* the runs of POST that can be in flight at once
Handlers == {1, 2}
TrayIds  == {"t1", "t2"}
TagUids  == {"A", "B"}

\* a field the JSON body or the extra map does not have
Absent == "<absent>"

(* ------------------------- pure helpers ------------------------------- *)

\* JSON.stringify of a string value: the text between double quotes
JsonStringify(s) == "\"" \o s \o "\""

\* JavaScript truthiness of a string field that may be missing
Truthy(s) == s # Absent /\ s # ""

\* an optional number is a sequence of length 0 or 1
None == <<>>
Some(n) == <<n>>

(* ------------------------------ state --------------------------------- *)

VARIABLES
  spools,             \* the inventory: id -> [remaining_weight, extra: [tag_uid, active_tray]]
  spoolmanConnection, \* whether the settings table holds a spoolmanConnection row
  pc,                 \* handler -> the await the run of POST is at
  body,               \* handler -> the JSON body of its delivery
  occurrence,         \* handler -> the printer event occurrence its delivery reports
  matchedSpool,       \* handler -> the spool found in its snapshot: [id, remaining_weight]
  response,           \* handler -> what POST returned
  effects,            \* handler -> the calls of the run, in order
  emitted             \* handler -> the events the run passed to spoolEvents.emit, in order

engineVars == <<spools, spoolmanConnection, pc, body, occurrence, matchedSpool,
                response, effects, emitted>>

VARIABLES
  mounted,            \* "no", "yes", "gone": whether Dashboard is mounted
  settings,           \* settings?.homeassistant and settings?.spoolman of the state settings
  effectDeps,         \* the same two values at the last render: the effect's dependencies
  configured,         \* whether settings holds both homeassistant and spoolman
  requests,           \* the fetchData calls issued, in order: [stage, printersOk, spoolsOk]
  printers,           \* the fetchData call whose printers setPrinters displayed; 0 is []
  shownSpools,        \* the fetchData call whose data setSpools displayed; 0 is []
  effectDue,          \* the dependencies of the live-update effect differ from the last render's
  effectPending,      \* a render has scheduled the live-update effect, not yet run
  effectSettings,     \* whether the settings of that render hold both services
  posted,             \* runs of handleSpoolAssign / handleSpoolUnassign awaiting /api/spools
  live,               \* the run of the live-update effect not yet cleaned up; 0 if none
  runs,               \* runs of the live-update effect that connected, so far
  eventSource,        \* run -> the EventSource its eventSource variable holds; 0 is null
  reconnectTimeout,   \* run -> the timer its reconnectTimeout variable holds; 0 is null
  sources,            \* the EventSource objects created: [run, readyState, errors]
  timers,             \* the timers set: [run, state, delay]
  loading,            \* the loading state of Dashboard (useState(true))
  error,              \* whether the error state of Dashboard is set (never reset)
  rendered            \* the view Dashboard last rendered, "none" before and after

dashVars == <<mounted, settings, effectDeps, configured, requests, printers, shownSpools, effectDue,
              effectPending, effectSettings, posted, live, runs, eventSource, reconnectTimeout, sources, timers,
              loading, error, rendered>>

VARIABLES
  input,              \* the identifier the pattern functions are first given
  argument,           \* the identifier they are given next
  patternCalls        \* the calls made so far: [fn, arg, result]

patternVars == <<input, argument, patternCalls>>

(* ------------------------- request bodies ----------------------------- *)

\* request.json() rejects: the body is not JSON
Malformed == "<malformed>"

\* request.json() resolves to a value with no properties to read (JSON null)
NullBody == "<null>"

NoBody ==
  [event |-> Absent, used_weight |-> None, active_tray_id |-> Absent,
   tray_entity_id |-> Absent, tag_uid |-> Absent]

UsedWeights == {None} \cup {Some(n) : n \in -1..MaxUsedWeight}

SpoolUsageBodies ==
  {[NoBody EXCEPT !.event = "spool_usage", !.used_weight = w, !.active_tray_id = t] :
     w \in UsedWeights, t \in TrayIds \cup {Absent}}

TrayChangeBodies ==
  {[NoBody EXCEPT !.event = "tray_change", !.tray_entity_id = t, !.tag_uid = g] :
     t \in TrayIds, g \in TagUids \cup {Absent, "", "unknown"}}

Bodies ==
  SpoolUsageBodies \cup TrayChangeBodies
    \cup {[NoBody EXCEPT !.event = "other"], [NoBody EXCEPT !.event = Malformed],
          [NoBody EXCEPT !.event = NullBody]}

(* --------------------------- responses -------------------------------- *)

NoSpool == [id |-> 0, remaining_weight |-> 0]

NoResponse ==
  [httpStatus |-> 0, status |-> Absent, spoolId |-> 0, deducted |-> None,
   newRemainingWeight |-> None]

Json(status) == [NoResponse EXCEPT !.httpStatus = 200, !.status = status]

\* NextResponse.json({ error: 'Webhook processing failed' }, { status: 500 })
Failure == [NoResponse EXCEPT !.httpStatus = 500, !.status = "error"]

(* ---------------------- the inventory service ------------------------- *)

\* extra.active_tray and extra.tag_uid hold JSON text
TrayValues == {JsonStringify(t) : t \in TrayIds}

\* spools.find(s => s.extra?.[key] === json): the first spool of the snapshot, in
\* the order getSpools returns them (by id), whose extra value is json; 0 if none
Find(snapshot, key, json) ==
  LET hits == {s \in DOMAIN snapshot : snapshot[s].extra[key] = json}
  IN  IF hits = {} THEN 0 ELSE CHOOSE s \in hits : \A o \in hits : s <= o

\* the "use weight" operation: one spool's remaining weight goes down.  The
\* service is taken to stop at 0; the handler never reads the result back
UseWeightOp(inv, id, grams) ==
  [inv EXCEPT ![id].remaining_weight =
     IF inv[id].remaining_weight >= grams THEN inv[id].remaining_weight - grams ELSE 0]

\* the "assign spool to tray" operation, a single-record operation: active_tray
\* of the target spool is set, replacing its prior claim; no other record is written
AssignSpoolToTrayOp(inv, id, tray) ==
  [inv EXCEPT ![id].extra.active_tray = JsonStringify(tray)]

\* the "clear assignment" operation
ClearAssignmentOp(inv, id) == [inv EXCEPT ![id].extra.active_tray = Absent]

(* ------------------------- the webhook handler ------------------------ *)

\* the run of handler d moves to await `at`, having made `calls`
Step(d, at, calls) ==
  /\ pc' = [pc EXCEPT ![d] = at]
  /\ effects' = [effects EXCEPT ![d] = @ \o calls]

\* return NextResponse.json(r)
Return(d, calls, r) ==
  /\ Step(d, "done", calls \o <<"respond">>)
  /\ response' = [response EXCEPT ![d] = r]

\* a delivery of body b, reporting event occurrence occ, reaches idle handler d:
\* POST is called and awaits request.json()
Accept(d, b, occ) ==
  /\ pc[d] = "idle"
  /\ body' = [body EXCEPT ![d] = b]
  /\ occurrence' = [occurrence EXCEPT ![d] = occ]
  /\ Step(d, "requestJson", <<>>)
  /\ UNCHANGED <<spools, spoolmanConnection, matchedSpool, response, emitted>>
  /\ UNCHANGED <<dashVars, patternVars>>

\* an occurrence number no delivery in flight carries
FreshOccurrence ==
  CHOOSE o \in Handlers :
    /\ \A e \in Handlers : occurrence[e] # o
    /\ \A p \in Handlers : (\A e \in Handlers : occurrence[e] # p) => o <= p

\* the hub reports a new event occurrence, one of `bodies`
ReceiveOf(d, bodies) == \E b \in bodies : Accept(d, b, FreshOccurrence)

\* the hub reports a new event occurrence
Receive(d) == ReceiveOf(d, Bodies)

\* the hub delivers again the event handler e has received
Redeliver(d, e) == e # d /\ pc[e] # "idle" /\ Accept(d, body[e], occurrence[e])

\* request.json() resolves, and the 'webhook' activity record is asked for; or it
\* rejects, the body not being JSON, or const { event } = body throws, the body
\* being null, and the catch block asks for its record
RequestJson(d) ==
  /\ pc[d] = "requestJson"
  /\ IF body[d].event = Malformed
       THEN Step(d, "catch", <<"request.json:throw">>)
     ELSE IF body[d].event = NullBody
       THEN Step(d, "catch", <<"body.event:throw">>)
       ELSE Step(d, "logWebhook", <<>>)
  /\ UNCHANGED <<spools, spoolmanConnection, body, occurrence, matchedSpool, response,
                 emitted>>
  /\ UNCHANGED <<dashVars, patternVars>>

\* the 'webhook' activity record is written
LogWebhook(d) ==
  /\ pc[d] = "logWebhook"
  /\ Step(d, "findFirst", <<"log:webhook">>)
  /\ UNCHANGED <<spools, spoolmanConnection, body, occurrence, matchedSpool, response,
                 emitted>>
  /\ UNCHANGED <<dashVars, patternVars>>

\* the spool_usage bodies that pass the checks made before the inventory is read
DeductingBodies ==
  {b \in SpoolUsageBodies :
     b.used_weight # None /\ b.used_weight[1] > 0 /\ b.active_tray_id \in TrayIds}

\* the tray_change bodies that carry a tag a spool can have
TaggedBodies == {b \in TrayChangeBodies : b.tag_uid \in TagUids}

\* the check with zero let through
NoWeightToDeductButZero(w) == w = None \/ w[1] < 0

\* !used_weight || used_weight <= 0
NoWeightToDeduct(w) == w = None \/ w[1] <= 0

\* spoolmanConnection.findFirst(), then the checks made before any inventory call
FindFirst(d) ==
  /\ pc[d] = "findFirst"
  /\ IF ~spoolmanConnection THEN Return(d, <<>>, Json("ignored"))
     ELSE IF body[d].event = "spool_usage"
       THEN IF NoWeightToDeduct(body[d].used_weight) \/ ~Truthy(body[d].active_tray_id)
              THEN Return(d, <<>>, Json("ignored"))
              ELSE Step(d, "getSpools", <<>>) /\ UNCHANGED response
     ELSE IF body[d].event = "tray_change"
       THEN Step(d, "getSpools", <<>>) /\ UNCHANGED response
     ELSE Return(d, <<>>, Json("ignored"))
  /\ UNCHANGED <<spools, spoolmanConnection, body, occurrence, matchedSpool, emitted>>
  /\ UNCHANGED <<dashVars, patternVars>>

\* the spool of snapshot `snapshot` the event of body b is about; 0 if none
Match(snapshot, b) ==
  IF b.event = "spool_usage"
    THEN Find(snapshot, "active_tray", JsonStringify(b.active_tray_id))
  ELSE IF Truthy(b.tag_uid) /\ b.tag_uid # "unknown" /\ b.tag_uid # ""
    THEN Find(snapshot, "tag_uid", JsonStringify(b.tag_uid))
  ELSE 0

\* getSpools with a 'tray_change' event broadcast when no spool matches
GetSpoolsAnnouncingNoMatch(d) ==
  /\ pc[d] = "getSpools"
  /\ LET m == Match(spools, body[d])
     IN IF m = 0
          THEN /\ Return(d, <<"getSpools", "emit:tray_change">>, Json("no_match"))
               /\ emitted' = [emitted EXCEPT ![d] =
                    Append(@, [type |-> "tray_change", spoolId |-> 0, deducted |-> 0,
                               newWeight |-> 0, trayId |-> body[d].tray_entity_id])]
               /\ UNCHANGED matchedSpool
          ELSE /\ Step(d, IF body[d].event = "spool_usage" THEN "useWeight"
                          ELSE "assignSpoolToTray", <<"getSpools">>)
               /\ matchedSpool' = [matchedSpool EXCEPT ![d] =
                    [id |-> m, remaining_weight |-> spools[m].remaining_weight]]
               /\ UNCHANGED <<response, emitted>>
  /\ UNCHANGED <<spools, spoolmanConnection, body, occurrence>>
  /\ UNCHANGED <<dashVars, patternVars>>

\* client.getSpools() returns; the spool is looked up in the snapshot
GetSpools(d) ==
  /\ pc[d] = "getSpools"
  /\ LET m == Match(spools, body[d])
     IN IF m = 0
          THEN /\ Return(d, <<"getSpools">>, Json("no_match"))
               /\ UNCHANGED matchedSpool
          ELSE /\ Step(d, IF body[d].event = "spool_usage" THEN "useWeight"
                          ELSE "assignSpoolToTray", <<"getSpools">>)
               /\ matchedSpool' = [matchedSpool EXCEPT ![d] =
                    [id |-> m, remaining_weight |-> spools[m].remaining_weight]]
               /\ UNCHANGED response
  /\ UNCHANGED <<spools, spoolmanConnection, body, occurrence, emitted>>
  /\ UNCHANGED <<dashVars, patternVars>>

\* the SpoolUpdateEvent of a usage
UsageEvent(d) ==
  [type |-> "usage", spoolId |-> matchedSpool[d].id,
   deducted |-> body[d].used_weight[1],
   newWeight |-> matchedSpool[d].remaining_weight - body[d].used_weight[1],
   trayId |-> body[d].active_tray_id]

\* the success response of a usage
UsageResponse(d) ==
  [Json("success") EXCEPT
     !.spoolId = matchedSpool[d].id,
     !.deducted = Some(body[d].used_weight[1]),
     !.newRemainingWeight =
        Some(matchedSpool[d].remaining_weight - body[d].used_weight[1])]

\* client.useWeight(matchedSpool.id, used_weight) returns; in the same turn
\* spoolEvents.emit(SPOOL_UPDATED, updateEvent) is called and the 'spool_usage'
\* activity record is asked for
UseWeight(d) ==
  /\ pc[d] = "useWeight"
  /\ spools' = UseWeightOp(spools, matchedSpool[d].id, body[d].used_weight[1])
  /\ emitted' = [emitted EXCEPT ![d] = Append(@, UsageEvent(d))]
  /\ Step(d, "logUsage", <<"useWeight", "emit:usage">>)
  /\ UNCHANGED <<spoolmanConnection, body, occurrence, matchedSpool, response>>
  /\ UNCHANGED <<dashVars, patternVars>>

\* the 'spool_usage' activity record is written, and the response
LogUsage(d) ==
  /\ pc[d] = "logUsage"
  /\ Return(d, <<"log:spool_usage">>, UsageResponse(d))
  /\ UNCHANGED <<spools, spoolmanConnection, body, occurrence, matchedSpool, emitted>>
  /\ UNCHANGED <<dashVars, patternVars>>

\* client.assignSpoolToTray(matchedSpool.id, tray_entity_id) returns
AssignSpoolToTray(d) ==
  /\ pc[d] = "assignSpoolToTray"
  /\ spools' = AssignSpoolToTrayOp(spools, matchedSpool[d].id, body[d].tray_entity_id)
  /\ Step(d, "logAssign", <<"assignSpoolToTray">>)
  /\ UNCHANGED <<spoolmanConnection, body, occurrence, matchedSpool, response, emitted>>
  /\ UNCHANGED <<dashVars, patternVars>>

\* the 'spool_change' activity record, and the response
LogAssign(d) ==
  /\ pc[d] = "logAssign"
  /\ Return(d, <<"log:spool_change">>,
            [Json("success") EXCEPT !.spoolId = matchedSpool[d].id])
  /\ UNCHANGED <<spools, spoolmanConnection, body, occurrence, matchedSpool, emitted>>
  /\ UNCHANGED <<dashVars, patternVars>>

InventoryCalls == {"getSpools", "useWeight", "assignSpoolToTray"}

\* a handler that emits the usage event before it awaits useWeight, which throws
CallThrowsAfterEmit(d) ==
  /\ pc[d] \in InventoryCalls
  /\ IF pc[d] = "useWeight"
       THEN /\ Step(d, "catch", <<"emit:usage", "useWeight:throw">>)
            /\ emitted' = [emitted EXCEPT ![d] = Append(@, UsageEvent(d))]
       ELSE /\ Step(d, "catch", <<pc[d] \o ":throw">>)
            /\ UNCHANGED emitted
  /\ UNCHANGED <<spools, spoolmanConnection, body, occurrence, matchedSpool, response>>
  /\ UNCHANGED <<dashVars, patternVars>>

\* the inventory call handler d awaits throws
CallThrows(d) ==
  /\ pc[d] \in InventoryCalls
  /\ Step(d, "catch", <<pc[d] \o ":throw">>)
  /\ UNCHANGED <<spools, spoolmanConnection, body, occurrence, matchedSpool, response,
                 emitted>>
  /\ UNCHANGED <<dashVars, patternVars>>

\* the calls to the local database a handler awaits inside the try block, by the
\* place of the handler: the activityLog.create of the 'webhook' record,
\* spoolmanConnection.findFirst, and the activityLog.create of the usage and of
\* the assignment
StorageCalls ==
  [logWebhook |-> "log:webhook", findFirst |-> "findFirst",
   logUsage |-> "log:spool_usage", logAssign |-> "log:spool_change"]

\* the database call handler d awaits inside the try block rejects
StorageThrows(d) ==
  /\ pc[d] \in DOMAIN StorageCalls
  /\ Step(d, "catch", <<StorageCalls[pc[d]] \o ":throw">>)
  /\ UNCHANGED <<spools, spoolmanConnection, body, occurrence, matchedSpool, response,
                 emitted>>
  /\ UNCHANGED <<dashVars, patternVars>>

\* the 'error' activity record of the catch block rejects: the exception leaves
\* POST, which returns no response
CatchThrows(d) ==
  /\ pc[d] = "catch"
  /\ Step(d, "done", <<"log:error:throw">>)
  /\ UNCHANGED <<spools, spoolmanConnection, body, occurrence, matchedSpool, response,
                 emitted>>
  /\ UNCHANGED <<dashVars, patternVars>>

\* the catch block without its activity record
CatchWithoutRecord(d) ==
  /\ pc[d] = "catch"
  /\ Return(d, <<>>, Failure)
  /\ UNCHANGED <<spools, spoolmanConnection, body, occurrence, matchedSpool, emitted>>
  /\ UNCHANGED <<dashVars, patternVars>>

\* the catch block: the 'error' activity record, and the 500 response
Catch(d) ==
  /\ pc[d] = "catch"
  /\ Return(d, <<"log:error">>, Failure)
  /\ UNCHANGED <<spools, spoolmanConnection, body, occurrence, matchedSpool, emitted>>
  /\ UNCHANGED <<dashVars, patternVars>>

\* the response is sent: the handler is free for the next delivery
Finish(d) ==
  /\ pc[d] = "done"
  /\ pc' = [pc EXCEPT ![d] = "idle"]
  /\ body' = [body EXCEPT ![d] = NoBody]
  /\ occurrence' = [occurrence EXCEPT ![d] = 0]
  /\ matchedSpool' = [matchedSpool EXCEPT ![d] = NoSpool]
  /\ response' = [response EXCEPT ![d] = NoResponse]
  /\ effects' = [effects EXCEPT ![d] = <<>>]
  /\ emitted' = [emitted EXCEPT ![d] = <<>>]
  /\ UNCHANGED <<spools, spoolmanConnection>>
  /\ UNCHANGED <<dashVars, patternVars>>

(* ------------------- the dashboard's live updates --------------------- *)

\* setTimeout(connect, 5000)
ReconnectDelay == 5000

\* the data.type of the messages of /api/events, and a message that is not JSON
MessageTypes ==
  {"heartbeat", "connected", "usage", "assign", "unassign", "tray_change",
   "print_warning", Malformed}

\* the message types onmessage answers with fetchData()
RefreshingTypes == {"usage", "assign", "unassign", "tray_change"}

\* the values settings?.homeassistant and settings?.spoolman can have: undefined
\* (settings is null or has no such key), null, or an object.  Every response is
\* parsed into new objects, so an object is told from another (Object.is) by
\* whether the last render has seen it
JsUndefined == [is |-> "undefined", seen |-> FALSE]
JsNull == [is |-> "null", seen |-> FALSE]
Parsed == [is |-> "object", seen |-> FALSE]

\* JavaScript truthiness of such a value
IsSet(v) == v.is = "object"

\* the value, once a render has read it
Seen(v) == IF IsSet(v) THEN [v EXCEPT !.seen = TRUE] ELSE v

\* settings as useState(null) leaves it
NoSettings == [homeassistant |-> JsUndefined, spoolman |-> JsUndefined]

\* what settingsRes.json() resolves to: null, or an object in which the services
\* are missing, null, or objects (settingsRes.ok is not tested, so the body of
\* an error response is an answer too)
SettingsAnswers ==
  {[body |-> "null", homeassistant |-> JsUndefined, spoolman |-> JsUndefined]}
    \cup {[body |-> "object", homeassistant |-> hm[1], spoolman |-> hm[2]] :
            hm \in {<<JsUndefined, JsUndefined>>, <<JsNull, JsNull>>,
                    <<Parsed, JsNull>>, <<Parsed, Parsed>>}}

\* settingsData.homeassistant && settingsData.spoolman
BothSet(data) == IsSet(data.homeassistant) /\ IsSet(data.spoolman)

\* what /api/printers answers: a response that is not ok, no printers, printers
PrinterAnswers == {"notOk", "empty", "some"}

\* the awaits of fetchData, in order: fetch('/api/settings') and its json(), the
\* Promise.all of the two list requests, printersRes.json(), spoolsRes.json()
Awaits == {"settings", "lists", "printers", "spools"}

\* a fetchData call awaiting `stage`, its list responses not yet known or no
\* longer needed
Request(stage) == [stage |-> stage, printersRes |-> "notOk", spoolsOk |-> FALSE]

\* a fetchData call that has returned: having called setPrinters with printers
\* and setSpools ("shown"), or otherwise ("done": nothing more to request, a
\* response that is not ok or holds no printers, or an exception)
Ended == {"done", "shown"}

\* fetchData() is called: fetch('/api/settings') is awaited
CallFetchData ==
  /\ Len(requests) < MaxFetches
  /\ requests' = Append(requests, Request("settings"))

\* the variables of the live-update effect and of its runs, as one value
Conn ==
  [live |-> live, runs |-> runs, sources |-> sources, timers |-> timers,
   eventSource |-> eventSource]

SetConn(c) ==
  /\ live' = c.live
  /\ runs' = c.runs
  /\ sources' = c.sources
  /\ timers' = c.timers
  /\ eventSource' = c.eventSource

\* eventSource?.close() in run r, whose eventSource variable holds held[r]
CloseSource(srcs, held, r) ==
  IF held[r] = 0 THEN srcs
  ELSE [srcs EXCEPT ![held[r]].readyState = "closed"]

\* connect() in run r: eventSource = new EventSource('/api/events')
Connect(c, r) ==
  [c EXCEPT !.sources = Append(@, [run |-> r, readyState |-> "open", errors |-> 0]),
            !.eventSource = [@ EXCEPT ![r] = Len(c.sources) + 1]]

\* if (reconnectTimeout) clearTimeout(reconnectTimeout), for run r
CleanedUp(tms, r) ==
  IF reconnectTimeout[r] = 0 \/ tms[reconnectTimeout[r]].state # "pending"
    THEN tms
    ELSE [tms EXCEPT ![reconnectTimeout[r]].state = "cleared"]

\* a cleanup that closes the source and leaves the timer set
CleanupKeepingTimer(c) ==
  IF c.live = 0 THEN c
  ELSE [c EXCEPT !.sources = CloseSource(@, c.eventSource, c.live), !.live = 0]

\* the cleanup the live-update effect returned, for the run not yet cleaned up
Cleanup(c) ==
  IF c.live = 0 THEN c
  ELSE [c EXCEPT !.sources = CloseSource(@, c.eventSource, c.live),
                 !.timers = CleanedUp(@, c.live),
                 !.live = 0]

\* the live-update effect is cleaned up and run again, with the settings of the
\* render that scheduled it: it connects if both services are set
Effect(c, both) ==
  IF both
    THEN Connect([Cleanup(c) EXCEPT !.runs = c.runs + 1, !.live = c.runs + 1],
                 c.runs + 1)
    ELSE Cleanup(c)

\* a further run and its source are within the bounds
Fits(both) == both => (runs < MaxRuns /\ Len(sources) < MaxConnections)

\* what Dashboard returns for its state: the spinner, the error card with Retry,
\* the setup prompt, or the main view with Refresh, with one PrinterCard per
\* printer ("cards") or none ("main")
Shown ==
  IF loading THEN "loading"
  ELSE IF error THEN "error"
  ELSE IF ~configured THEN "setup"
  ELSE IF printers = 0 THEN "main" ELSE "cards"

\* the finally block of fetchData, reached when the call ends at `stage`
Finally(stage) ==
  IF mounted = "yes" /\ stage \in Ended
    THEN loading' = FALSE
    ELSE UNCHANGED loading

\* Dashboard is rendered: the spinner is shown, the first effect calls
\* fetchData(); the live-update effect finds settings null and returns
Mount ==
  /\ mounted = "no"
  /\ mounted' = "yes"
  /\ rendered' = "loading"
  /\ CallFetchData
  /\ UNCHANGED <<settings, effectDeps, configured, printers, shownSpools, effectDue,
                 effectPending, effectSettings, posted, live, runs, eventSource,
                 reconnectTimeout, sources, timers, loading, error>>
  /\ UNCHANGED <<engineVars, patternVars>>

\* the settings response of fetchData call k arrives: setSettings(settingsData).
\* Of null, reading settingsData.homeassistant throws: setError; otherwise the
\* two list requests are sent if both services are set.  Dashboard renders
\* later; a Dashboard that is gone keeps its state
SetSettings(k, answer) ==
  /\ requests[k].stage = "settings"
  /\ LET stage == IF answer.body = "object" /\ BothSet(answer) THEN "lists" ELSE "done"
     IN /\ requests' = [requests EXCEPT ![k] = Request(stage)]
        /\ Finally(stage)
  /\ IF mounted = "yes"
       THEN /\ settings' = [homeassistant |-> answer.homeassistant,
                            spoolman |-> answer.spoolman]
            /\ configured' = BothSet(answer)
            /\ effectDue' = (settings' # effectDeps)
            /\ error' = (error \/ answer.body = "null")
       ELSE UNCHANGED <<settings, configured, effectDue, error>>
  /\ UNCHANGED <<mounted, effectDeps, printers, shownSpools, effectPending,
                 effectSettings, posted, live, runs, eventSource, reconnectTimeout,
                 sources, timers, rendered>>
  /\ UNCHANGED <<engineVars, patternVars>>

\* Dashboard renders with the state last set and shows the view of that state.
\* If settings?.homeassistant or settings?.spoolman is not the value of the
\* render before (Object.is), the live-update effect is scheduled, to run in a
\* later task with the settings of this render.  An effect still scheduled by
\* the render before is run first
Render ==
  /\ mounted = "yes"
  /\ effectDue \/ rendered # Shown
  /\ rendered' = Shown
  /\ settings' = [homeassistant |-> Seen(settings.homeassistant),
                   spoolman |-> Seen(settings.spoolman)]
  /\ effectDeps' = settings'
  /\ effectDue' = FALSE
  /\ effectPending' = effectDue
  /\ effectSettings' = (effectDue /\ configured)
  /\ IF effectPending
       THEN Fits(effectSettings) /\ SetConn(Effect(Conn, effectSettings))
       ELSE UNCHANGED <<live, runs, sources, timers, eventSource>>
  /\ UNCHANGED <<mounted, configured, requests, printers, shownSpools, posted,
                 reconnectTimeout, loading, error>>
  /\ UNCHANGED <<engineVars, patternVars>>

\* the scheduled live-update effect runs: the cleanup of the run before, then
\* the effect body
RunEffect ==
  /\ mounted = "yes"
  /\ effectPending
  /\ effectPending' = FALSE
  /\ effectSettings' = FALSE
  /\ Fits(effectSettings)
  /\ SetConn(Effect(Conn, effectSettings))
  /\ UNCHANGED <<mounted, settings, effectDeps, configured, requests, printers, shownSpools, effectDue,
                 posted, reconnectTimeout, loading, error, rendered>>
  /\ UNCHANGED <<engineVars, patternVars>>

\* both list responses of fetchData call k have arrived
ListsArrive(k, pRes, sOk) ==
  /\ requests[k].stage = "lists"
  /\ requests' = [requests EXCEPT
                    ![k] = IF pRes # "notOk"
                             THEN [stage |-> "printers", printersRes |-> pRes,
                                   spoolsOk |-> sOk]
                           ELSE IF sOk THEN Request("spools") ELSE Request("done")]
  /\ Finally(requests'[k].stage)
  /\ UNCHANGED <<mounted, settings, effectDeps, configured, printers, shownSpools, effectDue, effectPending,
                 effectSettings, posted, live, runs, eventSource, reconnectTimeout,
                 sources, timers, error, rendered>>
  /\ UNCHANGED <<engineVars, patternVars>>

\* printersRes.json() of fetchData call k resolves: setPrinters(printersData.printers
\* || []); 0 stands for []
SetPrinters(k) ==
  /\ requests[k].stage = "printers"
  /\ printers' = (IF mounted # "yes" THEN printers
                  ELSE IF requests[k].printersRes = "empty" THEN 0 ELSE k)
  /\ requests' = [requests EXCEPT
                    ![k] = IF requests[k].spoolsOk
                             THEN [@ EXCEPT !.stage = "spools", !.spoolsOk = FALSE]
                             ELSE Request("done")]
  /\ Finally(requests'[k].stage)
  /\ UNCHANGED <<mounted, settings, effectDeps, configured, shownSpools, effectDue, effectPending,
                 effectSettings, posted, live, runs, eventSource, reconnectTimeout,
                 sources, timers, error, rendered>>
  /\ UNCHANGED <<engineVars, patternVars>>

\* spoolsRes.json() of fetchData call k resolves: setSpools
SetSpools(k) ==
  /\ requests[k].stage = "spools"
  /\ shownSpools' = (IF mounted = "yes" THEN k ELSE shownSpools)
  /\ requests' = [requests EXCEPT
                    ![k] = Request(IF requests[k].printersRes = "some"
                                     THEN "shown" ELSE "done")]
  /\ Finally("done")
  /\ UNCHANGED <<mounted, settings, effectDeps, configured, printers, effectDue, effectPending,
                 effectSettings, posted, live, runs, eventSource, reconnectTimeout,
                 sources, timers, error, rendered>>
  /\ UNCHANGED <<engineVars, patternVars>>

\* what fetchData call k awaits is rejected: setError
FetchFails(k) ==
  /\ requests[k].stage \in Awaits
  /\ requests' = [requests EXCEPT ![k] = Request("done")]
  /\ error' = (IF mounted = "yes" THEN TRUE ELSE error)
  /\ Finally("done")
  /\ UNCHANGED <<mounted, settings, effectDeps, configured, printers, shownSpools, effectDue, effectPending,
                 effectSettings, posted, live, runs, eventSource, reconnectTimeout,
                 sources, timers, rendered>>
  /\ UNCHANGED <<engineVars, patternVars>>

\* the user clicks Retry on the error card: fetchData()
ClickRetry ==
  /\ mounted = "yes"
  /\ rendered = "error"
  /\ CallFetchData
  /\ UNCHANGED <<mounted, settings, effectDeps, configured, printers, shownSpools, effectDue, effectPending,
                 effectSettings, posted, live, runs, eventSource, reconnectTimeout,
                 sources, timers, loading, error, rendered>>
  /\ UNCHANGED <<engineVars, patternVars>>

\* the user clicks Refresh in the main view: fetchData()
ClickRefresh ==
  /\ mounted = "yes"
  /\ rendered \in {"main", "cards"}
  /\ CallFetchData
  /\ UNCHANGED <<mounted, settings, effectDeps, configured, printers, shownSpools, effectDue, effectPending,
                 effectSettings, posted, live, runs, eventSource, reconnectTimeout,
                 sources, timers, loading, error, rendered>>
  /\ UNCHANGED <<engineVars, patternVars>>

\* eventSource.onmessage of source c, with a message of type `type`
OnMessage(c, type) ==
  /\ sources[c].readyState = "open"
  /\ IF type \in RefreshingTypes
       THEN CallFetchData
       ELSE UNCHANGED requests
  /\ UNCHANGED <<mounted, settings, effectDeps, configured, printers, shownSpools, effectDue, effectPending,
                 effectSettings, posted, live, runs, eventSource, reconnectTimeout,
                 sources, timers, loading, error, rendered>>
  /\ UNCHANGED <<engineVars, patternVars>>

\* onerror that sets the timer and leaves the source open
OnErrorWithoutClose(c) ==
  /\ sources[c].readyState = "open"
  /\ LET r == sources[c].run
     IN /\ sources' = [sources EXCEPT ![c].errors = @ + 1]
        /\ timers' = Append(timers, [run |-> r, state |-> "pending",
                                     delay |-> ReconnectDelay])
        /\ reconnectTimeout' = [reconnectTimeout EXCEPT ![r] = Len(timers) + 1]
  /\ UNCHANGED <<mounted, settings, effectDeps, configured, requests, printers, shownSpools, effectDue,
                 effectPending, effectSettings, posted, live, runs, eventSource,
                 loading, error, rendered>>
  /\ UNCHANGED <<engineVars, patternVars>>

\* eventSource.onerror of source c: eventSource?.close(), then
\* reconnectTimeout = setTimeout(connect, 5000)
OnError(c) ==
  /\ sources[c].readyState = "open"
  /\ LET r == sources[c].run
     IN /\ sources' = CloseSource([sources EXCEPT ![c].errors = @ + 1],
                                  eventSource, r)
        /\ timers' = Append(timers, [run |-> r, state |-> "pending",
                                     delay |-> ReconnectDelay])
        /\ reconnectTimeout' = [reconnectTimeout EXCEPT ![r] = Len(timers) + 1]
  /\ UNCHANGED <<mounted, settings, effectDeps, configured, requests, printers, shownSpools, effectDue,
                 effectPending, effectSettings, posted, live, runs, eventSource,
                 loading, error, rendered>>
  /\ UNCHANGED <<engineVars, patternVars>>

\* timer t fires: connect()
TimerFires(t) ==
  /\ timers[t].state = "pending"
  /\ Len(sources) < MaxConnections
  /\ SetConn(Connect([Conn EXCEPT !.timers[t].state = "fired"], timers[t].run))
  /\ UNCHANGED <<mounted, settings, effectDeps, configured, requests, printers, shownSpools, effectDue,
                 effectPending, effectSettings, posted, reconnectTimeout, loading,
                 error, rendered>>
  /\ UNCHANGED <<engineVars, patternVars>>

\* Dashboard is removed: React commits the removal, after running an effect
\* still scheduled.  The cleanup of the live-update effect is a passive effect:
\* it runs in a later task
Unmount ==
  /\ mounted = "yes"
  /\ mounted' = "gone"
  /\ rendered' = "none"
  /\ effectDue' = FALSE
  /\ effectPending' = FALSE
  /\ effectSettings' = FALSE
  /\ IF effectPending
       THEN Fits(effectSettings) /\ SetConn(Effect(Conn, effectSettings))
       ELSE UNCHANGED <<live, runs, sources, timers, eventSource>>
  /\ UNCHANGED <<settings, effectDeps, configured, requests, printers, shownSpools,
                 posted, reconnectTimeout, loading, error>>
  /\ UNCHANGED <<engineVars, patternVars>>

\* the cleanup of the live-update effect runs for the Dashboard that was removed
RunCleanup ==
  /\ mounted = "gone"
  /\ live # 0
  /\ SetConn(Cleanup(Conn))
  /\ UNCHANGED <<mounted, settings, effectDeps, configured, requests, printers,
                 shownSpools, effectDue, effectPending, effectSettings, posted,
                 reconnectTimeout, loading, error, rendered>>
  /\ UNCHANGED <<engineVars, patternVars>>

(* ------------------ manual assignment from the dashboard -------------- *)

\* The handlers of the dashboard send a request to the /api/spools route and
\* await its response; the route, at the server, serves a request of any client
\* at any time.  No step of the dashboard reads the inventory.

\* POST /api/spools with { trayId, spoolId } is served
AssignRoute(trayId, spoolId) ==
  /\ spools' = AssignSpoolToTrayOp(spools, spoolId, trayId)
  /\ UNCHANGED <<spoolmanConnection, pc, body, occurrence, matchedSpool, response,
                 effects, emitted>>
  /\ UNCHANGED <<dashVars, patternVars>>

\* DELETE /api/spools with { spoolId } is served
UnassignRoute(spoolId) ==
  /\ spools' = ClearAssignmentOp(spools, spoolId)
  /\ UNCHANGED <<spoolmanConnection, pc, body, occurrence, matchedSpool, response,
                 effects, emitted>>
  /\ UNCHANGED <<dashVars, patternVars>>

\* a handler passed to the PrinterCards that are shown sends its request to
\* /api/spools and awaits the response; each such run can end in one fetchData call
Posts ==
  /\ mounted = "yes"
  /\ rendered = "cards"
  /\ posted + Len(requests) < MaxFetches
  /\ posted' = posted + 1
  /\ UNCHANGED engineVars
  /\ UNCHANGED <<mounted, settings, effectDeps, configured, requests, printers, shownSpools, effectDue,
                 effectPending, effectSettings, live, runs, eventSource,
                 reconnectTimeout, sources, timers, loading, error, rendered>>
  /\ UNCHANGED patternVars

\* handleSpoolAssign(trayId, spoolId) up to its await: the POST request with
\* { trayId, spoolId } is sent, to be served by AssignRoute(trayId, spoolId)
HandleSpoolAssign(trayId, spoolId) ==
  /\ trayId \in TrayIds /\ spoolId \in SpoolIds
  /\ Posts

\* handleSpoolUnassign(spoolId) up to its await: the DELETE request with
\* { spoolId } is sent, to be served by UnassignRoute(spoolId)
HandleSpoolUnassign(spoolId) ==
  /\ spoolId \in SpoolIds
  /\ Posts

\* the response of /api/spools reaches the handler that awaits it: if ok, the
\* toast and fetchData(); if not, the error toast
SpoolsAnswered(ok) ==
  /\ posted > 0
  /\ posted' = posted - 1
  /\ IF ok THEN CallFetchData ELSE UNCHANGED requests
  /\ UNCHANGED <<mounted, settings, effectDeps, configured, printers, shownSpools, effectDue, effectPending,
                 effectSettings, live, runs, eventSource, reconnectTimeout, sources,
                 timers, loading, error, rendered>>
  /\ UNCHANGED <<engineVars, patternVars>>

(* ---------------------- the entity name patterns ---------------------- *)

\* the localized suffixes of the print_status sensor, in the order of the array
PRINT_STATUS_SUFFIXES ==
  <<"print_status", "druckstatus", "printstatus", "estado_de_la_impresion",
    "stato_di_stampa">>

\* the entries of the suffix -> language record, in insertion order
PRINT_STATUS_TO_LANGUAGE ==
  << <<"print_status", "en">>, <<"druckstatus", "de">>, <<"printstatus", "nl">>,
     <<"estado_de_la_impresion", "es">>, <<"stato_di_stampa", "it">> >>

\* String.prototype.startsWith and endsWith
StartsWith(s, t) == Len(s) >= Len(t) /\ SubSeq(s, 1, Len(t)) = t
EndsWith(s, t) == Len(s) >= Len(t) /\ SubSeq(s, Len(s) - Len(t) + 1, Len(s)) = t

\* the characters \d matches
Digits == {"0", "1", "2", "3", "4", "5", "6", "7", "8", "9"}

\* s matches ^\d+$
IsDigits(s) == Len(s) >= 1 /\ \A i \in 1..Len(s) : SubSeq(s, i, i) \in Digits

\* the lengths n such that s ends with _<suffix>_ followed by n digits (at most
\* one, as no suffix holds a digit)
NumberedTails(s, suffix) ==
  {n \in 1..Len(s) :
     /\ IsDigits(SubSeq(s, Len(s) - n + 1, Len(s)))
     /\ EndsWith(SubSeq(s, 1, Len(s) - n), "_" \o suffix \o "_")}

\* s.match(new RegExp(`_${suffix}_\\d+$`)) is not null
MatchesNumbered(s, suffix) == NumberedTails(s, suffix) # {}

\* the whole of `rest` matches _(?:suffixes)(?:_\d+)?
IsSuffixPart(rest) ==
  \E i \in 1..Len(PRINT_STATUS_SUFFIXES) :
    LET t == "_" \o PRINT_STATUS_SUFFIXES[i]
    IN \/ rest = t
       \/ /\ StartsWith(rest, t \o "_")
          /\ IsDigits(SubSeq(rest, Len(t) + 2, Len(rest)))

\* the lengths the group (.+?) can take in a match of
\* ^sensor\.(.+?)_(?:suffixes)(?:_\d+)?$ (identifiers hold no line terminator)
Captures(entityId) ==
  IF StartsWith(entityId, "sensor.")
    THEN {n \in 1..(Len(entityId) - 7) :
            IsSuffixPart(SubSeq(entityId, 8 + n, Len(entityId)))}
    ELSE {}

Shortest(lengths) == CHOOSE n \in lengths : \A m \in lengths : n <= m

\* entityId.match(buildPrintStatusPattern()): <<>> for null, else <<match[1]>>; the
\* lazy group takes the shortest length that lets the rest match
buildPrintStatusPattern(entityId) ==
  IF Captures(entityId) = {} THEN <<>>
  ELSE <<SubSeq(entityId, 8, 7 + Shortest(Captures(entityId)))>>

\* isPrintStatusEntity that leaves out the numbered form
isPrintStatusEntityUnnumbered(entityId) ==
  /\ StartsWith(entityId, "sensor.")
  /\ \E i \in 1..Len(PRINT_STATUS_SUFFIXES) :
       EndsWith(entityId, "_" \o PRINT_STATUS_SUFFIXES[i])

isPrintStatusEntity(entityId) ==
  /\ StartsWith(entityId, "sensor.")
  /\ \E i \in 1..Len(PRINT_STATUS_SUFFIXES) :
       \/ EndsWith(entityId, "_" \o PRINT_STATUS_SUFFIXES[i])
       \/ MatchesNumbered(entityId, PRINT_STATUS_SUFFIXES[i])

\* result.replace(new RegExp(`_${suffix}(?:_\\d+)?$`), '')
StripSuffix(result, suffix) ==
  IF EndsWith(result, "_" \o suffix)
    THEN SubSeq(result, 1, Len(result) - Len(suffix) - 1)
  ELSE IF MatchesNumbered(result, suffix)
    THEN SubSeq(result, 1, Len(result) - Len(suffix) - 2
                             - Shortest(NumberedTails(result, suffix)))
  ELSE result

\* the fallback loop of extractPrinterPrefix over the suffixes from the i-th on
RECURSIVE StripFrom(_, _)
StripFrom(result, i) ==
  IF i > Len(PRINT_STATUS_SUFFIXES) THEN result
  ELSE StripFrom(StripSuffix(result, PRINT_STATUS_SUFFIXES[i]), i + 1)

extractPrinterPrefix(entityId) ==
  IF buildPrintStatusPattern(entityId) # <<>>
    THEN buildPrintStatusPattern(entityId)[1]
    ELSE StripFrom(IF StartsWith(entityId, "sensor.")
                     THEN SubSeq(entityId, 8, Len(entityId))
                     ELSE entityId, 1)

\* the entries of PRINT_STATUS_TO_LANGUAGE that entityId matches
LanguageMatches(entityId) ==
  {i \in 1..Len(PRINT_STATUS_TO_LANGUAGE) :
     \/ EndsWith(entityId, "_" \o PRINT_STATUS_TO_LANGUAGE[i][1])
     \/ MatchesNumbered(entityId, PRINT_STATUS_TO_LANGUAGE[i][1])}

\* detectLanguageFromEntity that tests endsWith only
detectLanguageFromEntityUnnumbered(entityId) ==
  LET hits == {i \in 1..Len(PRINT_STATUS_TO_LANGUAGE) :
                 EndsWith(entityId, "_" \o PRINT_STATUS_TO_LANGUAGE[i][1])}
  IN IF hits = {} THEN "en" ELSE PRINT_STATUS_TO_LANGUAGE[Shortest(hits)][2]

detectLanguageFromEntity(entityId) ==
  IF LanguageMatches(entityId) = {} THEN "en"
  ELSE PRINT_STATUS_TO_LANGUAGE[Shortest(LanguageMatches(entityId))][2]

\* the identifiers the functions are tried on: with and without the sensor.
\* domain, printer prefixes that themselves hold a suffix, the five suffixes and
\* two names that are none of them, with and without a numeric disambiguator
Heads == {"sensor.", ""}
Prefixes == {"p1s", "x1c_01", "a_print_status", "a_druckstatus_2"}
UnsupportedSuffixes == {"print_progress", "status"}
Disambiguators == {"", "_2", "_10"}
SupportedSuffixes == {PRINT_STATUS_SUFFIXES[i] : i \in 1..Len(PRINT_STATUS_SUFFIXES)}

Built(head, prefix, suffix, tail) == head \o prefix \o "_" \o suffix \o tail

Identifiers ==
  {Built(h, p, s, t) : h \in Heads, p \in Prefixes,
                       s \in SupportedSuffixes \cup UnsupportedSuffixes,
                       t \in Disambiguators}

\* fn is called on the current identifier and returns result
PatternCall(fn, result) ==
  /\ Len(patternCalls) < MaxCalls
  /\ patternCalls' = Append(patternCalls,
                            [fn |-> fn, arg |-> argument, result |-> result])
  /\ UNCHANGED <<input, argument>>
  /\ UNCHANGED <<engineVars, dashVars>>

CallDetectLanguageFromEntity ==
  PatternCall("detectLanguageFromEntity", detectLanguageFromEntity(argument))

CallIsPrintStatusEntity ==
  PatternCall("isPrintStatusEntity", isPrintStatusEntity(argument))

CallBuildPrintStatusPattern ==
  PatternCall("buildPrintStatusPattern", buildPrintStatusPattern(argument))

CallExtractPrinterPrefix ==
  PatternCall("extractPrinterPrefix", extractPrinterPrefix(argument))

\* the hub's disambiguator _2 is appended to the identifier
AppendDisambiguator ==
  /\ argument = input
  /\ argument' = argument \o "_2"
  /\ UNCHANGED <<input, patternCalls>>
  /\ UNCHANGED <<engineVars, dashVars>>

\* the prefix just extracted becomes the next identifier
Reapply ==
  /\ argument = input
  /\ patternCalls # <<>>
  /\ patternCalls[Len(patternCalls)].fn = "extractPrinterPrefix"
  /\ argument' = patternCalls[Len(patternCalls)].result
  /\ UNCHANGED <<input, patternCalls>>
  /\ UNCHANGED <<engineVars, dashVars>>

(* --------------------------- specification ---------------------------- *)

\* the spools' tag_uid, one of `tags`, is set on the inventory side; no spool
\* claims a tray yet
InitSpools(tags) ==
  {[s \in SpoolIds |->
      [remaining_weight |-> InitWeight,
       extra |-> [tag_uid |-> g[s], active_tray |-> Absent]]] :
     g \in [SpoolIds -> tags]}

\* Dashboard is not rendered yet
InitDashboard ==
  /\ mounted = "no"
  /\ settings = NoSettings
  /\ effectDeps = NoSettings
  /\ configured = FALSE
  /\ requests = <<>>
  /\ printers = 0
  /\ shownSpools = 0
  /\ effectDue = FALSE
  /\ effectPending = FALSE
  /\ effectSettings = FALSE
  /\ posted = 0
  /\ live = 0
  /\ runs = 0
  /\ eventSource = [r \in 1..MaxRuns |-> 0]
  /\ reconnectTimeout = [r \in 1..MaxRuns |-> 0]
  /\ sources = <<>>
  /\ timers = <<>>
  /\ loading = TRUE
  /\ error = FALSE
  /\ rendered = "none"

\* no pattern function is called
InitPatterns ==
  /\ input = ""
  /\ argument = ""
  /\ patternCalls = <<>>

InitHandlers ==
  /\ pc = [d \in Handlers |-> "idle"]
  /\ body = [d \in Handlers |-> NoBody]
  /\ occurrence = [d \in Handlers |-> 0]
  /\ matchedSpool = [d \in Handlers |-> NoSpool]
  /\ response = [d \in Handlers |-> NoResponse]
  /\ effects = [d \in Handlers |-> <<>>]
  /\ emitted = [d \in Handlers |-> <<>>]

\* The inventory at the start: no spool, the first spool, the first two, ...
\* carry the tag "A". The route sees tags only through spools.find, which
\* takes the first match in inventory order, so an inventory is told from
\* another by how many spools carry the tag.
Init ==
  /\ spools \in {inv \in InitSpools({Absent, JsonStringify("A")}) :
                   \A s \in SpoolIds \ {1} :
                     inv[s].extra.tag_uid # Absent => inv[s - 1].extra.tag_uid # Absent}
  /\ spoolmanConnection \in BOOLEAN
  /\ InitHandlers
  /\ InitDashboard
  /\ InitPatterns

\* one delivery at a time, with manual operations of the /api/spools route in
\* between; the calls of the inventory service and of the local database can fail
Next ==
  \/ Receive(1)
  \/ RequestJson(1)
  \/ LogWebhook(1)
  \/ FindFirst(1)
  \/ GetSpools(1)
  \/ UseWeight(1)
  \/ LogUsage(1)
  \/ AssignSpoolToTray(1)
  \/ LogAssign(1)
  \/ CallThrows(1)
  \/ StorageThrows(1)
  \/ Catch(1)
  \/ CatchThrows(1)
  \/ Finish(1)
  \/ \E t \in TrayIds, s \in SpoolIds : AssignRoute(t, s)
  \/ \E s \in SpoolIds : UnassignRoute(s)

vars == <<engineVars, dashVars, patternVars>>

Spec == Init /\ [][Next]_vars

\* spool_usage deliveries handled concurrently, the hub delivering some events twice
UsageInit ==
  /\ spools \in InitSpools({Absent})
  /\ spoolmanConnection = TRUE
  /\ InitHandlers
  /\ InitDashboard
  /\ InitPatterns

UsageNext ==
  \/ \E d \in Handlers : ReceiveOf(d, DeductingBodies)
  \/ \E d, e \in Handlers : Redeliver(d, e)
  \/ \E d \in Handlers : RequestJson(d)
  \/ \E d \in Handlers : LogWebhook(d)
  \/ \E d \in Handlers : FindFirst(d)
  \/ \E d \in Handlers : GetSpools(d)
  \/ \E d \in Handlers : UseWeight(d)
  \/ \E d \in Handlers : LogUsage(d)
  \/ \E d \in Handlers : CallThrows(d)
  \/ \E d \in Handlers : StorageThrows(d)
  \/ \E d \in Handlers : Catch(d)
  \/ \E d \in Handlers : CatchThrows(d)
  \/ \E d \in Handlers : Finish(d)
  \/ \E t \in TrayIds, s \in SpoolIds : AssignRoute(t, s)
  \/ \E s \in SpoolIds : UnassignRoute(s)

UsageSpec == UsageInit /\ [][UsageNext]_vars

\* tray_change deliveries with a usable tag handled concurrently, with manual
\* assignments in between
AssignInit ==
  /\ spools \in InitSpools({JsonStringify(g) : g \in TagUids})
  /\ spoolmanConnection = TRUE
  /\ InitHandlers
  /\ InitDashboard
  /\ InitPatterns

AssignNext ==
  \/ \E d \in Handlers : ReceiveOf(d, TaggedBodies)
  \/ \E d \in Handlers : RequestJson(d)
  \/ \E d \in Handlers : LogWebhook(d)
  \/ \E d \in Handlers : FindFirst(d)
  \/ \E d \in Handlers : GetSpools(d)
  \/ \E d \in Handlers : AssignSpoolToTray(d)
  \/ \E d \in Handlers : LogAssign(d)
  \/ \E d \in Handlers : CallThrows(d)
  \/ \E d \in Handlers : StorageThrows(d)
  \/ \E d \in Handlers : Catch(d)
  \/ \E d \in Handlers : CatchThrows(d)
  \/ \E d \in Handlers : Finish(d)
  \/ \E t \in TrayIds, s \in SpoolIds : AssignRoute(t, s)
  \/ \E s \in SpoolIds : UnassignRoute(s)

AssignSpec == AssignInit /\ [][AssignNext]_vars

\* one dashboard: its refreshes, its live-update connection and its manual
\* assignments
DashInit ==
  /\ spools \in InitSpools({Absent})
  /\ spoolmanConnection = TRUE
  /\ InitHandlers
  /\ InitDashboard
  /\ InitPatterns

DashNext ==
  \/ Mount
  \/ \E k \in 1..Len(requests), answer \in SettingsAnswers : SetSettings(k, answer)
  \/ Render
  \/ RunEffect
  \/ \E k \in 1..Len(requests), pRes \in PrinterAnswers, sOk \in BOOLEAN :
       ListsArrive(k, pRes, sOk)
  \/ \E k \in 1..Len(requests) : SetPrinters(k)
  \/ \E k \in 1..Len(requests) : SetSpools(k)
  \/ \E k \in 1..Len(requests) : FetchFails(k)
  \/ ClickRetry
  \/ ClickRefresh
  \/ \E c \in 1..Len(sources), type \in MessageTypes : OnMessage(c, type)
  \/ \E c \in 1..Len(sources) : OnError(c)
  \/ \E t \in 1..Len(timers) : TimerFires(t)
  \/ \E t \in TrayIds, s \in SpoolIds : HandleSpoolAssign(t, s)
  \/ \E s \in SpoolIds : HandleSpoolUnassign(s)
  \/ \E ok \in BOOLEAN : SpoolsAnswered(ok)
  \/ Unmount
  \/ RunCleanup

DashSpec == DashInit /\ [][DashNext]_vars

\* the pattern functions, called on one identifier, on that identifier with _2
\* appended, and on their own result
PatternInit ==
  /\ spools \in InitSpools({Absent})
  /\ spoolmanConnection = TRUE
  /\ InitHandlers
  /\ InitDashboard
  /\ input \in Identifiers
  /\ argument = input
  /\ patternCalls = <<>>

PatternNext ==
  \/ CallDetectLanguageFromEntity
  \/ CallIsPrintStatusEntity
  \/ CallBuildPrintStatusPattern
  \/ CallExtractPrinterPrefix
  \/ AppendDisambiguator
  \/ Reapply

PatternSpec == PatternInit /\ [][PatternNext]_vars

(* ----------------------------- properties ----------------------------- *)

Done(d) == pc[d] = "done"

\* how many of the run's calls are in `kinds`
Count(d, kinds) == Cardinality({i \in 1..Len(effects[d]) : effects[d][i] \in kinds})

Made(d, call) == \E i \in 1..Len(effects[d]) : effects[d][i] = call

\* the inventory mutation calls that returned, and those that were made
Applied == {"useWeight", "assignSpoolToTray"}
Attempted == Applied \cup {"useWeight:throw", "assignSpoolToTray:throw"}
Thrown == {c \o ":throw" : c \in InventoryCalls}
Records ==
  {"log:webhook", "log:spool_usage", "log:spool_change", "log:error"}

\* the spools whose extra.tag_uid is the tag of handler d's delivery (no action
\* writes tag_uid, so these are also the spools that matched in its snapshot)
TagMatches(d) ==
  {s \in SpoolIds : spools[s].extra.tag_uid = JsonStringify(body[d].tag_uid)}

\* C1: a tray_change delivery whose inventory calls returned made exactly one
\* assignSpoolToTray call and answered success if exactly one spool carries its
\* tag; it made no mutation call and answered no_match if none or several do.
C1_UniqueTagOrNoMatch ==
  \A d \in Handlers :
    (Done(d) /\ body[d].event = "tray_change" /\ Made(d, "getSpools")
       /\ Count(d, Thrown) = 0)
    => IF Cardinality(TagMatches(d)) = 1
         THEN Count(d, Attempted) = 1 /\ Made(d, "assignSpoolToTray")
              /\ response[d].status = "success"
         ELSE Count(d, Attempted) = 0 /\ response[d].status = "no_match"

\* the database calls of the try block that rejected
StorageThrown == {StorageCalls[c] \o ":throw" : c \in DOMAIN StorageCalls}

\* C2 as stated: a spool_usage delivery whose used_weight is absent, zero or
\* negative ends with status ignored and has made no inventory mutation call.
C2_NoWeightIgnored ==
  \A d \in Handlers :
    (Done(d) /\ body[d].event = "spool_usage"
       /\ (body[d].used_weight = None \/ body[d].used_weight[1] <= 0))
    => /\ response[d].status = "ignored"
       /\ response[d].httpStatus = 200
       /\ Count(d, Attempted) = 0

\* C2 as amended: a spool_usage delivery whose used_weight is absent, zero or
\* negative makes no inventory mutation call; finished, it has ended with status
\* ignored, unless the write of its webhook record or the read of the settings
\* rejected: then with the failure response, or with none if the write of the
\* error record rejected too.
C2_NoWeightIgnoredOrStorageFailed ==
  \A d \in Handlers :
    (body[d].event = "spool_usage"
       /\ (body[d].used_weight = None \/ body[d].used_weight[1] <= 0))
    => /\ Count(d, Attempted) = 0
       /\ Done(d) =>
            IF Count(d, StorageThrown) = 0
              THEN response[d] = Json("ignored")
            ELSE IF Made(d, "log:error:throw")
              THEN response[d] = NoResponse
              ELSE response[d] = Failure

\* a delivery with used_weight 0 for a tray a spool claims was ignored
C2_Witness ==
  \E d \in Handlers, s \in SpoolIds :
    /\ Done(d) /\ spoolmanConnection
    /\ body[d].event = "spool_usage" /\ body[d].used_weight = Some(0)
    /\ body[d].active_tray_id \in TrayIds
    /\ spools[s].extra.active_tray = JsonStringify(body[d].active_tray_id)
    /\ response[d].status = "ignored"

\* C3: a spool_usage delivery with used_weight U > 0 that matched spool S, with
\* remaining weight R in its snapshot, and whose useWeight call returned, answers
\* success with deducted = U and newRemainingWeight = R - U, and has broadcast
\* exactly one event: a usage event of S with deducted = U and newWeight = R - U.
C3_UsageReportsSnapshotMinusUsed ==
  \A d \in Handlers :
    (Done(d) /\ body[d].event = "spool_usage" /\ Made(d, "useWeight"))
    => LET U == body[d].used_weight[1]
           S == matchedSpool[d].id
           R == matchedSpool[d].remaining_weight
       IN /\ U > 0 /\ S \in SpoolIds
          /\ response[d].status = "success"
          /\ response[d].spoolId = S
          /\ response[d].deducted = Some(U)
          /\ response[d].newRemainingWeight = Some(R - U)
          /\ Len(emitted[d]) = 1
          /\ Count(d, {"emit:usage"}) = 1
          /\ emitted[d][1].type = "usage"
          /\ emitted[d][1].spoolId = S
          /\ emitted[d][1].deducted = U
          /\ emitted[d][1].newWeight = R - U

\* the run of handler d has applied its inventory mutation
HasApplied(d) == Count(d, Applied) >= 1

\* C4: a delivery that found a matching spool makes exactly one inventory mutation
\* call, no delivery makes more than one, and of the deliveries in flight that
\* report one event occurrence at most one applies the mutation.
C4_MutationOncePerOccurrence ==
  /\ \A d \in Handlers :
       /\ Count(d, Attempted) <= 1
       /\ (Done(d) /\ matchedSpool[d].id # 0) => Count(d, Attempted) = 1
  /\ \A d, e \in Handlers :
       (d # e /\ occurrence[d] # 0 /\ occurrence[d] = occurrence[e])
       => ~(HasApplied(d) /\ HasApplied(e))

\* the spools that claim tray value v
Claimants(v) == {s \in SpoolIds : spools[s].extra.active_tray = v}

\* C5: at most one spool has any given active_tray value.
C5_OneSpoolPerTray == \A v \in TrayValues : Cardinality(Claimants(v)) <= 1

\* the last call of a finished run is the response
RespondsLast(d) ==
  /\ Len(effects[d]) >= 1
  /\ effects[d][Len(effects[d])] = "respond"
  /\ Count(d, {"respond"}) = 1

\* C6 as stated: every finished delivery has appended exactly one activity record.
C6_ExactlyOneRecord == \A d \in Handlers : Done(d) => Count(d, Records) = 1

\* C6 as amended: a delivery to which the handler returns a response has appended
\* at least one activity record before it: one, of type webhook, when it ends
\* ignored or no_match; two, webhook and then spool_usage or spool_change, when
\* it ends with success; and when it ends with the failure response one of type
\* error, after the webhook record if that one was written.  No record follows
\* the response.
C6_RecordsBeforeResponse ==
  \A d \in Handlers :
    (Done(d) /\ response[d] # NoResponse) =>
      /\ RespondsLast(d)
      /\ Count(d, Records) >= 1
      /\ Count(d, {"log:webhook"}) <= 1
      /\ response[d].status \in {"ignored", "no_match"}
           => Count(d, Records) = 1 /\ Made(d, "log:webhook")
      /\ response[d].status = "success"
           => /\ Count(d, Records) = 2 /\ effects[d][1] = "log:webhook"
              /\ Count(d, {"log:spool_usage", "log:spool_change"}) = 1
      /\ response[d].status = "error"
           => /\ Count(d, {"log:error"}) = 1
              /\ effects[d][Len(effects[d]) - 1] = "log:error"
              /\ Count(d, Records) = 1 + Count(d, {"log:webhook"})
              /\ Made(d, "log:webhook")
                   <=> ~(\/ Made(d, "request.json:throw")
                         \/ Made(d, "body.event:throw")
                         \/ Made(d, "log:webhook:throw"))

\* the write of the webhook record of a delivery rejected, and the delivery ended
\* with the failure response and one record, of type error
C6_Witness ==
  \E d \in Handlers :
    /\ Done(d) /\ response[d] = Failure /\ Made(d, "log:webhook:throw")
    /\ Count(d, Records) = 1

\* C7: once an inventory call of a run has thrown, the run is in the catch block
\* or finished; finished, it has appended one record of type error, after the
\* throw, and returned the failure response with status 500.
C7_InventoryThrowCaught ==
  \A d \in Handlers :
    Count(d, Thrown) >= 1 =>
      /\ Count(d, Thrown) = 1
      /\ pc[d] \in {"catch", "done"}
      /\ Done(d) =>
           /\ response[d] = Failure
           /\ response[d].httpStatus = 500
           /\ Count(d, {"log:error"}) = 1
           /\ \E i \in 1..Len(effects[d]) - 2 :
                /\ effects[d][i] \in Thrown
                /\ effects[d][i + 1] = "log:error"
                /\ effects[d][i + 2] = "respond"

\* C8: a finished delivery whose inventory mutation call returned has published
\* an event after that call and before responding.
C8_MutationIsPublished ==
  \A d \in Handlers :
    Done(d) =>
      \A i \in 1..Len(effects[d]) :
        effects[d][i] \in Applied =>
          \E j \in (i + 1)..Len(effects[d]) :
            /\ effects[d][j] \in {"emit:usage", "emit:assign"}
            /\ \A k \in 1..j : effects[d][k] # "respond"

\* C9: a delivery that ends with no_match or ignored has made no useWeight and no
\* assignSpoolToTray call and has broadcast no event.
C9_NoMatchNoEffect ==
  \A d \in Handlers :
    (Done(d) /\ response[d].status \in {"no_match", "ignored"})
    => /\ Count(d, Attempted) = 0
       /\ emitted[d] = <<>>
       /\ \A i \in 1..Len(effects[d]) :
            effects[d][i] \in {"log:webhook", "getSpools", "respond"}

\* a tray_change delivery with a usable tag that no spool carries ended no_match,
\* while some spool claims a tray
C9_Witness ==
  \E d \in Handlers, s \in SpoolIds :
    /\ Done(d) /\ body[d].event = "tray_change" /\ body[d].tag_uid \in TagUids
    /\ Made(d, "getSpools") /\ response[d].status = "no_match"
    /\ spools[s].extra.active_tray \in TrayValues

\* the EventSource objects and the timers of run r of the live-update effect
SourcesOf(r) == {c \in 1..Len(sources) : sources[c].run = r}
TimersOf(r) == {t \in 1..Len(timers) : timers[t].run = r}
FailedOf(r) == {c \in SourcesOf(r) : sources[c].errors >= 1}

\* C10: in every run of the live-update effect, a source fails at most once and
\* is closed by its failure; there is one timer per failure, each with the delay
\* of 5000 ms, and at most one of them pending; and every source but the first
\* was opened by one of these timers firing.
C10_OneReconnectPerFailure ==
  \A r \in 1..MaxRuns :
    /\ \A c \in SourcesOf(r) :
         /\ sources[c].errors <= 1
         /\ sources[c].errors = 1 => sources[c].readyState = "closed"
    /\ Cardinality(TimersOf(r)) = Cardinality(FailedOf(r))
    /\ \A t \in TimersOf(r) : timers[t].delay = ReconnectDelay
    /\ Cardinality({t \in TimersOf(r) : timers[t].state = "pending"}) <= 1
    /\ IF r <= runs
         THEN Cardinality(SourcesOf(r))
                = 1 + Cardinality({t \in TimersOf(r) : timers[t].state = "fired"})
         ELSE SourcesOf(r) = {} /\ TimersOf(r) = {}

\* one run has seen two failures: the first was followed by a reconnect when its
\* timer fired, the second, of the new connection, has set the timer again
C10_Witness ==
  \E r \in 1..MaxRuns :
    /\ Cardinality(FailedOf(r)) = 2
    /\ Cardinality({t \in TimersOf(r) : timers[t].state = "fired"}) = 1
    /\ Cardinality({t \in TimersOf(r) : timers[t].state = "pending"}) = 1
    /\ Cardinality(SourcesOf(r)) = 2

\* C11: once every refresh issued has ended, and the one issued last has set
\* both of its lists, the printers and the spools displayed are those of the
\* refresh issued last.
C11_LatestIssuedWins ==
  (/\ mounted = "yes"
   /\ requests # <<>>
   /\ \A k \in 1..Len(requests) : requests[k].stage \in Ended
   /\ requests[Len(requests)].stage = "shown")
  => /\ printers = Len(requests)
     /\ shownSpools = Len(requests)

\* the calls of fn made so far
CallsOf(fn) == {i \in 1..Len(patternCalls) : patternCalls[i].fn = fn}

\* C12: detectLanguageFromEntity, called on an identifier built from any prefix
\* and a locale's suffix, with or without a numeric disambiguator, returns that
\* locale; called on one built with a name that is no locale's suffix, it
\* returns "en".
C12_DetectsLocale ==
  \A i \in CallsOf("detectLanguageFromEntity") :
    \A h \in Heads, p \in Prefixes, t \in Disambiguators :
      /\ \A e \in 1..Len(PRINT_STATUS_TO_LANGUAGE) :
           patternCalls[i].arg = Built(h, p, PRINT_STATUS_TO_LANGUAGE[e][1], t)
           => patternCalls[i].result = PRINT_STATUS_TO_LANGUAGE[e][2]
      /\ \A u \in UnsupportedSuffixes :
           patternCalls[i].arg = Built(h, p, u, t)
           => patternCalls[i].result = "en"

\* the language of a numbered German identifier whose prefix holds the English
\* suffix was detected, and so was that of an identifier with an unsupported name
C12_Witness ==
  /\ \E i \in CallsOf("detectLanguageFromEntity") :
       /\ patternCalls[i].arg = "sensor.a_print_status_druckstatus_10"
       /\ patternCalls[i].result = "de"
  /\ \E i \in CallsOf("detectLanguageFromEntity") :
       /\ patternCalls[i].arg = "sensor.a_print_status_druckstatus_10_2"
       /\ patternCalls[i].result = "en"

\* the classification a call reports: the boolean of isPrintStatusEntity, or
\* whether the pattern matched
Classified(i) ==
  IF patternCalls[i].fn = "isPrintStatusEntity" THEN patternCalls[i].result
  ELSE patternCalls[i].result # <<>>

\* the pairs of calls of one classifying function, the second on the identifier
\* of the first with _2 appended
AppendedPairs ==
  {p \in (1..Len(patternCalls)) \X (1..Len(patternCalls)) :
     /\ patternCalls[p[1]].fn \in {"isPrintStatusEntity", "buildPrintStatusPattern"}
     /\ patternCalls[p[2]].fn = patternCalls[p[1]].fn
     /\ patternCalls[p[2]].arg = patternCalls[p[1]].arg \o "_2"}

\* x is a sensor. identifier that ends in a print-status suffix and a numeric
\* disambiguator
Disambiguated(x) ==
  /\ StartsWith(x, "sensor.")
  /\ \E s \in SupportedSuffixes : MatchesNumbered(x, s)

\* C13 as claimed: for every identifier x, isPrintStatusEntity(x + "_2") =
\* isPrintStatusEntity(x), and x + "_2" matches the print-status pattern exactly
\* when x does.
C13_AppendNeverChangesKind ==
  \A p \in AppendedPairs : Classified(p[2]) = Classified(p[1])

\* C13: for every identifier x that is not already a print-status identifier
\* with a numeric disambiguator, isPrintStatusEntity(x + "_2") =
\* isPrintStatusEntity(x), and x + "_2" matches the print-status pattern exactly
\* when x does.
C13_AppendKeepsKindOnce ==
  \A p \in AppendedPairs :
    ~Disambiguated(patternCalls[p[1]].arg) => Classified(p[2]) = Classified(p[1])

\* a print-status identifier without disambiguator was classified, and again
\* with _2 appended
C13_Witness ==
  \E p \in AppendedPairs :
    /\ patternCalls[p[1]].fn = "isPrintStatusEntity"
    /\ patternCalls[p[1]].arg = "sensor.x1c_01_stato_di_stampa"
    /\ Classified(p[1]) /\ Classified(p[2])

\* C14: extractPrinterPrefix called on its own result returns that result again,
\* also for identifiers that hold a print-status suffix more than once or end
\* in a numeric disambiguator.
C14_ExtractIdempotent ==
  \A i, j \in CallsOf("extractPrinterPrefix") :
    patternCalls[j].arg = patternCalls[i].result
    => patternCalls[j].result = patternCalls[i].result

\* C15: a delivery broadcasts a usage event only after its useWeight call has
\* returned; one whose useWeight call threw or was never made broadcasts none.
C15_UsageEventAfterUseWeight ==
  \A d \in Handlers :
    /\ \A j \in 1..Len(effects[d]) :
         effects[d][j] = "emit:usage"
         => \E i \in 1..(j - 1) : effects[d][i] = "useWeight"
    /\ (\E e \in 1..Len(emitted[d]) : emitted[d][e].type = "usage")
       => Made(d, "useWeight")
    /\ ~Made(d, "useWeight")
       => /\ ~Made(d, "emit:usage")
          /\ emitted[d] = <<>>

\* one delivery has broadcast its usage event after useWeight returned; the
\* useWeight call of a later one threw and it ended with nothing broadcast
C15_Witness ==
  \E d \in Handlers :
    /\ Done(d)
    /\ Made(d, "useWeight:throw")
    /\ emitted[d] = <<>>
    /\ \E s \in SpoolIds : spools[s].remaining_weight < InitWeight

\* C16: a delivery that ends with the 500 response has had no useWeight and no
\* assignSpoolToTray call return.
C16_FailureAppliedNothing ==
  \A d \in Handlers :
    (Done(d) /\ response[d].httpStatus = 500) => Count(d, Applied) = 0

\* the open connections and the pending timers of the dashboard
OpenSources == {c \in 1..Len(sources) : sources[c].readyState = "open"}
PendingTimers == {t \in 1..Len(timers) : timers[t].state = "pending"}

\* run r of the live-update effect has been cleaned up
TornDown(r) == r <= runs /\ r # live

\* at most one open connection, at most one pending timer, never both, and all
\* of them belong to the run not yet cleaned up
OneSourceOrTimer ==
  /\ Cardinality(OpenSources) <= 1
  /\ Cardinality(PendingTimers) <= 1
  /\ OpenSources = {} \/ PendingTimers = {}
  /\ \A r \in 1..MaxRuns :
       TornDown(r) =>
         /\ \A c \in SourcesOf(r) : sources[c].readyState = "closed"
         /\ \A t \in TimersOf(r) : timers[t].state # "pending"

\* a run that has been cleaned up opens no connection and sets no timer
NoSourceAfterTearDown ==
  \A r \in 1..MaxRuns :
    TornDown(r) =>
      /\ Cardinality(SourcesOf(r))' = Cardinality(SourcesOf(r))
      /\ Cardinality(TimersOf(r))' = Cardinality(TimersOf(r))

\* C17: a dashboard has at most one open event-stream connection and at most one
\* pending reconnect timer, never both at once; once a run of the live-update
\* effect is cleaned up, its connections are closed, its timer is not pending,
\* and it opens no connection any more.
C17_OneConnectionUntilTearDown ==
  []OneSourceOrTimer /\ [][NoSourceAfterTearDown]_vars

\* Dashboard was removed while a reconnect was pending after a failure of a
\* reconnected source, and the cleanup has run: the timer is cleared and every
\* source closed
C17_Witness ==
  /\ mounted = "gone"
  /\ live = 0
  /\ OpenSources = {}
  /\ \E t \in 1..Len(timers) : timers[t].state = "cleared"
  /\ \E t \in 1..Len(timers) : timers[t].state = "fired"
  /\ Len(sources) >= 2

====
